---- MODULE Spec2Model ----
(***************************************************************************)
(* fridges_must_die: the level generator (src/src/level/mod.rs,            *)
(* generate_level and spawn_level), the level progression systems          *)
(* (level_progress, level_switch, level_delete_old,                        *)
(* collision_level_object_projectiles), and the player's systems           *)
(* (src/src/player.rs: player_move, player_update, player_pick_up_weapon,  *)
(* player_throw_weapon, player_shoot) with update_attack_timers            *)
(* (src/src/weapons/mod.rs).                                               *)
(*                                                                         *)
(* The specifications share the variables:                                 *)
(*   SpecGen    one generate_level call after the other, each called with  *)
(*              an exit door of the grid before it;                        *)
(*   SpecLarge  generate_level and the tutorial changes on a larger grid;  *)
(*   Spec       the progression systems, tick by tick, with deferred       *)
(*              commands applied at the end of the tick;                   *)
(*   SpecSpawn  where spawn_level puts a level and its doors in the world, *)
(*              level after level, with the sizes the program uses;        *)
(*   SpecMove   player_move, one call;                                     *)
(*   SpecUpdate player_update, call after call;                            *)
(*   SpecWeapon the weapon systems of the player, tick by tick.            *)
(***************************************************************************)
EXTENDS Integers, Sequences, FiniteSets, TLC

\* ------------------------------------------------------------------------
\* Sizes.  The program runs with GRID_SIZE = 40 and FILL_AMOUNT = 0.02; the
\* model keeps the arithmetic and scales both so that the grid can be
\* enumerated.  GRID_SIZE is fixed along a behaviour: GridSmall, where every
\* draw of the generator is enumerated (two strips, enough to wall in one
\* cell), or GridLarge, where three strips can wall in two cells and the
\* tutorial pen lies inside the border; there the draws are enumerated around
\* one place only (see LargeDraws).
\* ------------------------------------------------------------------------
GridSmall == 7
GridLarge == 9

VARIABLE grid_size

GRID_SIZE == grid_size
FILL_PERCENT == 13
STRIP_LENGTH == 3
LEVEL_WEAPON_SPAWNS == 1
LEVEL_ENEMIES == 1

fill_cells == (GRID_SIZE * GRID_SIZE * FILL_PERCENT) \div 100
num_strips == fill_cells \div STRIP_LENGTH

Idx == 0..(GRID_SIZE - 1)

\* Variant of gen_range that includes the upper end.
gen_range_Inclusive(lo, hi) == lo..hi

\* rng.gen_range(lo..hi)
gen_range(lo, hi) == lo..(hi - 1)

\* The four door draws, rng.gen_range(2..GRID_SIZE - 2), taken at both ends
\* of the range.
DoorDraws == {2, GRID_SIZE - 3}

\* ------------------------------------------------------------------------
\* CellType and Door.  Every cell is a record of one shape so that cells of
\* different kinds compare.
\* ------------------------------------------------------------------------
Cell(k) == [kind |-> k, door_type |-> "None", door_state |-> "None", grid_pos |-> 0]
Empty == Cell("Empty")
Column == Cell("Column")
Weapon == Cell("Weapon")
Enemy == Cell("Enemy")
Player == Cell("Player")
Door(t, s, p) == [kind |-> "Door", door_type |-> t, door_state |-> s, grid_pos |-> p]

\* Option<Door>::None
NoDoor == Cell("None")

DoorType == {"Top", "Bottom", "Left", "Right"}

\* grid, previus_door: generate_level's grid and argument; pc: the phase of
\* the call; strip, placed: the counters of its loops; trapped_removed: how
\* many cells the last "trapped" pass turned into Column.
VARIABLES grid, pc, previus_door, strip, placed, trapped_removed

\* The world and the progression systems.
\*   world            the live entities, each with the kind of bundle it was
\*                    spawned from
\*   next_entity      the next entity id Commands::spawn reserves
\*   commands         the commands queued in this tick, applied at its end
\*   level_state      the LevelState resource
\*   in_game          spawn_initial_level has run (OnEnter(GameState::InGame))
\*   ran              the Update systems of LevelPlugin that ran in this tick
\*   level_started_events, level_switch_events, door_animation_finished_events,
\*   collision_events events sent and not yet read by the system that reads them
\*   level_finished_events  LevelFinished events sent in this tick
\*   panicked         an unwrap() on None has aborted the program
\*   emitted_since_started  LevelFinished events sent since level_progress
\*                    last read a LevelStarted event (or since the start)
\*   observed_nonzero level_progress has counted a hostile since then
\*   awaiting_close   the entities the last handled LevelSwitch found tagged
\*                    LevelObject, until a Close event is handled
\*   older_batch      the handles that were stored in old_level_objects when
\*                    a LevelSwitch was handled and replaced them
\*   level_entities   the entities the last spawn_level and spawn_level_sun
\*                    calls spawned
VARIABLES world, next_entity, commands, level_state, in_game, ran,
          level_started_events, level_switch_events,
          door_animation_finished_events, collision_events,
          level_finished_events, panicked,
          emitted_since_started, observed_nonzero, awaiting_close,
          older_batch, level_entities

gvars == <<grid_size, grid, pc, previus_door, strip, placed, trapped_removed>>
pvars == <<world, next_entity, commands, level_state, in_game, ran,
           level_started_events, level_switch_events,
           door_animation_finished_events, collision_events,
           level_finished_events, panicked,
           emitted_since_started, observed_nonzero, awaiting_close, older_batch, level_entities>>
\* player_move.
\*   translation   transform.translation of the player
\*   velocity      PlayerVelocity.velocity
\*   delta_seconds time.delta_seconds() of the last call
\*   movement      the local `movement` when the last call left its loop
\*   returned      the last call left through `return` (Penetrating)
\*   start         translation when the last call was entered
\*   sweeps        the cast_shape queries of the last call, with their hits
\*   ticks         the calls made so far
VARIABLES translation, velocity, delta_seconds, movement, returned, start,
          sweeps, ticks

mvars == <<translation, velocity, delta_seconds, movement, returned, start,
           sweeps, ticks>>

\* spawn_level's placement of a level in the world.  Lengths are in halves
\* of a world unit, so that the centre of a cell is a whole number.
\*   level_translation     LevelState.translation
\*   previous_translation  LevelState.translation before the last LevelSwitch
\*                         was handled
\*   exit_door             event.exit_door of the last LevelSwitch handled
\*   exit_transform        the translation spawn_level gave the exit door's
\*                         entity when its level was spawned
\*   level_doors           the spawn_door calls of the last spawn_level: the
\*                         door and the translation of its transform
\*   levels_spawned        the spawn_level calls made so far
VARIABLES level_translation, previous_translation, exit_door, exit_transform,
          level_doors, levels_spawned

svars == <<level_translation, previous_translation, exit_door, exit_transform,
           level_doors, levels_spawned>>

SpawnIdle ==
  /\ level_translation = <<0, 0, 0>>
  /\ previous_translation = <<0, 0, 0>>
  /\ exit_door = NoDoor
  /\ exit_transform = <<0, 0, 0>>
  /\ level_doors = {}
  /\ levels_spawned = 0

\* player_update.  PlayerVelocity.velocity is kept as a direction and a
\* length: normalize() of a diagonal has no exact components, its length is
\* exactly one.
\*   player_velocity  PlayerVelocity.velocity: the vector along dir (any
\*                    positive multiple of dir is the same direction) of
\*                    length num / den
\*   was_input        PlayerVelocity.was_input
\*   frame_delta      time.delta() of the last call
\*   updates          the calls made so far
VARIABLES player_velocity, was_input, frame_delta, updates

uvars == <<player_velocity, was_input, frame_delta, updates>>

UpdateIdle ==
  /\ player_velocity = [dir |-> <<0, 0, 0>>, num |-> 0, den |-> 1]
  /\ was_input = FALSE
  /\ frame_delta = 0
  /\ updates = 0

\* The player's weapon: player_pick_up_weapon, player_throw_weapon,
\* player_shoot and update_attack_timers.
\*   weapons          the weapon entities: whether the FloatingObject whose
\*                    first child the weapon is exists, whether the weapon
\*                    carries PlayerWeapon or PlayerThrownWeapon, its
\*                    Ammo.ammo, WeaponAttackTimer.ready and the elapsed
\*                    time of WeaponAttackTimer.attack_timer
\*   pickup_events    the CollisionEvents the systems of this tick can read
\*   weapon_commands  the commands queued in this tick, applied at its end
\*   weapon_ran       the systems that ran in this tick
\*   shots            the ShootEvents player_shoot has sent, by weapon
\*   finished_seen    update_attack_timers has seen the weapon's timer
\*                    finished since the weapon's last ShootEvent (or since
\*                    the weapon was created)
VARIABLES weapons, pickup_events, weapon_commands, weapon_ran, shots,
          finished_seen

wvars == <<weapons, pickup_events, weapon_commands, weapon_ran, shots,
           finished_seen>>

xvars == <<svars, uvars, wvars>>

\* The weapons are pistols lying in the level; the program gives a pistol
\* 20 rounds and a quarter of a second between shots, the model fewer
\* rounds and a period counted in frame times.
MaxWeapons == 2
PISTOL_AMMO == 2
AttackPeriod == 2
MaxCollisions == 2

WeaponEntities == 1..MaxWeapons

\* WeaponBundle::pistol as the first child of a FloatingObject:
\* WeaponAttackTimer::new leaves ready false.
FloatingPistol ==
  [floating |-> TRUE, player_weapon |-> FALSE, thrown |-> FALSE,
   ammo |-> PISTOL_AMMO, ready |-> FALSE, elapsed |-> 0]

WeaponIdle ==
  /\ weapons = [w \in WeaponEntities |-> FloatingPistol]
  /\ pickup_events = << >>
  /\ weapon_commands = << >>
  /\ weapon_ran = {}
  /\ shots = [w \in WeaponEntities |-> 0]
  /\ finished_seen = [w \in WeaponEntities |-> FALSE]

ExtraIdle == SpawnIdle /\ UpdateIdle /\ WeaponIdle

vars == <<gvars, pvars, mvars, xvars>>

\* grid[y][x] = c
Put(g, y, x, c) == [g EXCEPT ![y][x] = c]

EmptyGrid == [y \in Idx |-> [x \in Idx |-> Empty]]

\* Variant of Border whose four loops stop one cell short.
Border_ShortLoops ==
  [y \in Idx |-> [x \in Idx |->
     IF (y = 0 \/ y = GRID_SIZE - 1 \/ x = 0 \/ x = GRID_SIZE - 1)
        /\ ~(y = GRID_SIZE - 1 /\ x = GRID_SIZE - 1)
     THEN Column ELSE Empty]]

\* generate border
Border ==
  [y \in Idx |-> [x \in Idx |->
     IF y = 0 \/ y = GRID_SIZE - 1 \/ x = 0 \/ x = GRID_SIZE - 1 THEN Column ELSE Empty]]

\* The side whose exit mirrors onto door side t.
Mirror(t) ==
  CASE t = "Bottom" -> "Top"
    [] t = "Top" -> "Bottom"
    [] t = "Right" -> "Left"
    [] t = "Left" -> "Right"

\* Variant of DoorPos that keeps the drawn position.
DoorPos_Drawn(prev, t, drawn) == drawn

\* check prevous exit: the door on side t takes the exit door's position and
\* opens when the exit door was on the side that mirrors onto t.
DoorPos(prev, t, drawn) ==
  IF prev.kind = "Door" /\ prev.door_type = Mirror(t) THEN prev.grid_pos ELSE drawn

DoorState(prev, t) ==
  IF prev.kind = "Door" /\ prev.door_type = Mirror(t) THEN "TemporaryOpen" ELSE "Locked"

\* generate doors, place the player on the first level, stamp the four doors
StampDoors(prev, top, bottom, left, right) ==
  LET door_top_pos == DoorPos(prev, "Top", top)
      door_bottom_pos == DoorPos(prev, "Bottom", bottom)
      door_left_pos == DoorPos(prev, "Left", left)
      door_right_pos == DoorPos(prev, "Right", right)
      g0 == IF prev.kind = "Door" THEN Border ELSE Put(Border, 1, door_top_pos, Player)
      g1 == Put(g0, 0, door_top_pos,
                Door("Top", DoorState(prev, "Top"), door_top_pos))
      g2 == Put(g1, GRID_SIZE - 1, door_bottom_pos,
                Door("Bottom", DoorState(prev, "Bottom"), door_bottom_pos))
      g3 == Put(g2, door_left_pos, 0,
                Door("Left", DoorState(prev, "Left"), door_left_pos))
  IN Put(g3, door_right_pos, GRID_SIZE - 1,
         Door("Right", DoorState(prev, "Right"), door_right_pos))

\* Variant of ValidPos with a wrong bound: the walk may step onto row 1.
ValidPos_RowOne(c) ==
  { p \in { <<c[1] - 1, c[2]>>, <<c[1] + 1, c[2]>>, <<c[1], c[2] - 1>>, <<c[1], c[2] + 1>> } :
      ~(p[1] < 2 \/ GRID_SIZE - 2 <= p[1] \/ p[2] < 1 \/ GRID_SIZE - 2 <= p[2]) }

\* the filter_map of the strip walk: the neighbours <<x, y>> of c that stay
\* inside [2, GRID_SIZE - 2)
ValidPos(c) ==
  { p \in { <<c[1] - 1, c[2]>>, <<c[1] + 1, c[2]>>, <<c[1], c[2] - 1>>, <<c[1], c[2] + 1>> } :
      ~(p[1] < 2 \/ GRID_SIZE - 2 <= p[1] \/ p[2] < 2 \/ GRID_SIZE - 2 <= p[2]) }

\* for _ in 0..STRIP_LENGTH: every grid the walk of n more steps from c can
\* leave behind
RECURSIVE Walk(_, _, _)
\* Variant of Walk that carves two cells in every step.
Walk_TwoCells(g, c, n) ==
  IF n = 0 \/ ValidPos(c) = {} THEN {g}
  ELSE UNION { UNION { Walk(Put(Put(g, p[2], p[1], Column), q[2], q[1], Column), q, n - 1)
                       : q \in ValidPos(p) } : p \in ValidPos(c) }

Walk(g, c, n) ==
  IF n = 0 \/ ValidPos(c) = {} THEN {g}
  ELSE UNION { Walk(Put(g, p[2], p[1], Column), p, n - 1) : p \in ValidPos(c) }

\* Variant of Trapped with a wrong index in the last neighbour.
Trapped_WrongNeighbour(g, y, x) ==
  /\ g[y][x] = Empty
  /\ g[y - 1][x] = Column
  /\ g[y + 1][x] = Column
  /\ g[y][x + 1] = Column
  /\ g[y - 1][x - 1] = Column

\* the "trapped" test of one cell
Trapped(g, y, x) ==
  /\ g[y][x] = Empty
  /\ g[y - 1][x] = Column
  /\ g[y + 1][x] = Column
  /\ g[y][x + 1] = Column
  /\ g[y][x - 1] = Column

\* check if there are some "trapped" places and remove them: one in-place
\* pass, row by row, k counting the cells of [2, GRID_SIZE - 2)^2 visited
RECURSIVE RemoveTrapped(_, _)
RemoveTrapped(g, k) ==
  IF k = (GRID_SIZE - 4) * (GRID_SIZE - 4) THEN g
  ELSE LET y == 2 + (k \div (GRID_SIZE - 4))
           x == 2 + (k % (GRID_SIZE - 4))
       IN RemoveTrapped(IF Trapped(g, y, x) THEN Put(g, y, x, Column) ELSE g, k + 1)

\* Variant of Accepts without the rejection loop.
Accepts_Any(g, y, x) == TRUE

\* while grid[random_cell_y][random_cell_x] != CellType::Empty { redraw }
Accepts(g, y, x) == g[y][x] = Empty

\* ---- generate_level, phase by phase ------------------------------------

GenerateBorderAndDoors ==
  /\ pc = "start"
  /\ \E top \in DoorDraws, bottom \in DoorDraws, left \in DoorDraws, right \in DoorDraws :
       grid' = StampDoors(previus_door, top, bottom, left, right)
  /\ pc' = "walls"
  /\ strip' = 0
  /\ trapped_removed' = 0
  /\ UNCHANGED <<previus_door, placed>>
  /\ UNCHANGED <<grid_size, pvars, mvars, xvars>>

GenerateStrip ==
  /\ pc = "walls"
  /\ strip < num_strips
  /\ \E random_cell_x \in gen_range(2, GRID_SIZE - 2),
        random_cell_y \in gen_range(2, GRID_SIZE - 2) :
       grid' \in Walk(Put(grid, random_cell_y, random_cell_x, Column),
                      <<random_cell_x, random_cell_y>>, STRIP_LENGTH)
  /\ strip' = strip + 1
  /\ UNCHANGED <<pc, previus_door, placed, trapped_removed>>
  /\ UNCHANGED <<grid_size, pvars, mvars, xvars>>

RemoveTrappedPlaces ==
  /\ pc = "walls"
  /\ strip = num_strips
  /\ grid' = RemoveTrapped(grid, 0)
  /\ trapped_removed' = Cardinality({ c \in Idx \X Idx : grid'[c[1]][c[2]] # grid[c[1]][c[2]] })
  /\ pc' = "weapons"
  /\ placed' = 0
  /\ UNCHANGED <<previus_door, strip>>
  /\ UNCHANGED <<grid_size, pvars, mvars, xvars>>

GenerateWeaponSpawn ==
  /\ pc = "weapons"
  /\ placed < LEVEL_WEAPON_SPAWNS
  /\ \E random_cell_x \in gen_range(2, GRID_SIZE - 2),
        random_cell_y \in gen_range(2, GRID_SIZE - 2) :
       /\ Accepts(grid, random_cell_y, random_cell_x)
       /\ grid' = Put(grid, random_cell_y, random_cell_x, Weapon)
  /\ placed' = placed + 1
  /\ UNCHANGED <<pc, previus_door, strip, trapped_removed>>
  /\ UNCHANGED <<grid_size, pvars, mvars, xvars>>

WeaponSpawnsDone ==
  /\ pc = "weapons"
  /\ placed = LEVEL_WEAPON_SPAWNS
  /\ pc' = "enemies"
  /\ placed' = 0
  /\ UNCHANGED <<grid, previus_door, strip, trapped_removed>>
  /\ UNCHANGED <<grid_size, pvars, mvars, xvars>>

GenerateEnemy ==
  /\ pc = "enemies"
  /\ placed < LEVEL_ENEMIES
  /\ \E random_cell_x \in gen_range(2, GRID_SIZE - 2),
        random_cell_y \in gen_range(2, GRID_SIZE - 2) :
       /\ Accepts(grid, random_cell_y, random_cell_x)
       /\ grid' = Put(grid, random_cell_y, random_cell_x, Enemy)
  /\ placed' = placed + 1
  /\ UNCHANGED <<pc, previus_door, strip, trapped_removed>>
  /\ UNCHANGED <<grid_size, pvars, mvars, xvars>>

ReturnGrid ==
  /\ pc = "enemies"
  /\ placed = LEVEL_ENEMIES
  /\ pc' = "done"
  /\ placed' = 0
  /\ UNCHANGED <<grid, previus_door, strip, trapped_removed>>
  /\ UNCHANGED <<grid_size, pvars, mvars, xvars>>

\* ---- spawn_level: the tutorial level and the next call ------------------

\* remove all content from the level: for y, x in 1..GRID_SIZE - 1
RemoveContent(g) ==
  [y \in Idx |-> [x \in Idx |->
     IF y \in 1..(GRID_SIZE - 2) /\ x \in 1..(GRID_SIZE - 2) /\ g[y][x] # Player
     THEN Empty ELSE g[y][x]]]

\* player_pos: the last Player cell the row-by-row scan meets, (0, 0) without one
PlayerPos(g) ==
  LET found == { c \in (1..(GRID_SIZE - 2)) \X (1..(GRID_SIZE - 2)) : g[c[1]][c[2]] = Player }
  IN IF found = {} THEN <<0, 0>>
     ELSE CHOOSE c \in found :
            \A d \in found : d[1] < c[1] \/ (d[1] = c[1] /\ d[2] <= c[2])

\* place walls around player: two full columns, then one full row
\* for y in 0..GRID_SIZE { grid[y][x] = Column }, from row y on
WallColumn(g, x, y) ==
  [r \in Idx |-> IF r >= y THEN [g[r] EXCEPT ![x] = Column] ELSE g[r]]

\* for x in 0..GRID_SIZE { grid[y][x] = Column }, from column x on
WallRow(g, y, x) ==
  [r \in Idx |-> IF r = y
                 THEN [c \in Idx |-> IF c >= x THEN Column ELSE g[r][c]]
                 ELSE g[r]]

\* Variant of TutorialLevel that does not clear the generated Player cell.
TutorialLevel_KeepsOldPlayer(g) ==
  LET player_pos == PlayerPos(g)
      new_player_pos == <<player_pos[1] + 3, player_pos[2]>>
      g1 == RemoveContent(g)
      g3 == Put(g1, new_player_pos[1], new_player_pos[2], Player)
      g4 == WallColumn(g3, new_player_pos[2] - 2, 0)
      g5 == WallColumn(g4, new_player_pos[2] + 2, 0)
  IN WallRow(g5, new_player_pos[1] + 2, 0)

\* if tutorial_level { ... }
TutorialLevel(g) ==
  LET player_pos == PlayerPos(g)
      new_player_pos == <<player_pos[1] + 3, player_pos[2]>>
      g1 == RemoveContent(g)
      g2 == Put(g1, player_pos[1], player_pos[2], Empty)
      g3 == Put(g2, new_player_pos[1], new_player_pos[2], Player)
      g4 == WallColumn(g3, new_player_pos[2] - 2, 0)
      g5 == WallColumn(g4, new_player_pos[2] + 2, 0)
  IN WallRow(g5, new_player_pos[1] + 2, 0)

\* spawn_initial_level: spawn_level(.., None, true) instantiates the grid
\* generate_level(None) returned, after the tutorial changes.
SpawnTutorialGrid ==
  /\ pc = "done"
  /\ previus_door = NoDoor
  /\ grid' = TutorialLevel(grid)
  /\ pc' = "spawned"
  /\ UNCHANGED <<previus_door, strip, placed, trapped_removed>>
  /\ UNCHANGED <<grid_size, pvars, mvars, xvars>>

\* The doors of the instantiated grid.
DoorsOf(g) == { c \in { g[y][x] : y \in Idx, x \in Idx } : c.kind = "Door" }

\* The exit door a LevelSwitch event carries: a door of the level being left.
\* Its state is owned by the door subsystem and not read by generate_level.
ExitDoor(d) == Door(d.door_type, "Open", d.grid_pos)

\* level_switch -> spawn_level(.., Some(event.exit_door), false) ->
\* generate_level(Some(exit_door)), which starts from a fresh grid.  A level
\* spawned without the tutorial flag is instantiated as generated.
SwitchLevel ==
  /\ \/ pc = "spawned"
     \/ pc = "done" /\ previus_door # NoDoor
  /\ \E d \in DoorsOf(grid) : previus_door' = ExitDoor(d)
  /\ grid' = EmptyGrid
  /\ pc' = "start"
  /\ UNCHANGED <<strip, placed, trapped_removed>>
  /\ UNCHANGED <<grid_size, pvars, mvars, xvars>>

\* ------------------------------------------------------------------------
\* The progression systems
\* ------------------------------------------------------------------------
MaxEntities == 10
MaxProjectiles == 1
MaxEvents == 1
MaxDoorEvents == 1

Entity == 1..MaxEntities

\* The bundles entities are spawned from: "geometry" is a LevelColliderBundle
\* (column, floor), "light" the directional light of spawn_level_sun, "enemy"
\* an EnemyBundle, "projectile" a ProjectileBundle, "player" the player.
\* Variant of HasLevelObject that leaves the tag off the light.
HasLevelObject_NoLight(kind) == kind \in {"geometry", "projectile"}

HasLevelObject(kind) == kind \in {"geometry", "light", "projectile"}
HasLevelCollider(kind) == kind = "geometry"
HasEnemy(kind) == kind = "enemy"
HasProjectile(kind) == kind = "projectile"

Live == DOMAIN world

\* Variant of LevelObjects without the With<LevelObject> filter.
LevelObjects_Unfiltered == Live

\* Variant of LevelObjects that leaves out the handles already stored.
LevelObjects_NotStored ==
  { e \in Live : HasLevelObject(world[e]) } \ level_state.old_level_objects
LevelObjects == { e \in Live : HasLevelObject(world[e]) }
LevelColliders == { e \in Live : HasLevelCollider(world[e]) }
Enemies == { e \in Live : HasEnemy(world[e]) }
Projectiles == { e \in Live : HasProjectile(world[e]) }

SpawnCmd(e, k, by) == [op |-> "spawn", e |-> e, kind |-> k, by |-> by]
DespawnCmd(e, by) == [op |-> "despawn", e |-> e, kind |-> "none", by |-> by]

\* The entities one spawn_level + spawn_level_sun call spawns: the level
\* geometry, what the grid's Player and Enemy cells stand for (the tutorial
\* grid holds the Player cell and no Enemy cell, every other grid
\* LEVEL_ENEMIES Enemy cells and no Player cell), and the light.
LevelKinds(tutorial_level) ==
  <<"geometry">>
  \o (IF tutorial_level THEN <<"player">> ELSE [i \in 1..LEVEL_ENEMIES |-> "enemy"])
  \o <<"light">>

\* commands.spawn(..) for every kind of ks, ids reserved from first on
SpawnAll(ks, first, by) ==
  { SpawnCmd(first + i - 1, ks[i], by) : i \in 1..Len(ks) }

\* The world after the queued commands are applied: a despawn of an entity
\* that does not exist only logs a warning.
Apply(w, cs) ==
  LET spawned == { c \in cs : c.op = "spawn" }
      despawned == { c.e : c \in { d \in cs : d.op = "despawn" } }
      ids == (DOMAIN w \cup { c.e : c \in spawned }) \ despawned
  IN [e \in ids |->
        IF e \in DOMAIN w THEN w[e]
        ELSE (CHOOSE c \in spawned : c.e = e).kind]

\* The Update systems of LevelPlugin.  The schedule orders none of them, so
\* each tick runs them in some order.  level_progress (reads the enemies and
\* LevelStarted, writes finished and LevelFinished) and
\* collision_level_object_projectiles (reads collision events, queues
\* commands) share nothing with the others and commute with them: the model
\* runs them first and last.  level_switch and level_delete_old both use
\* old_level_objects and run in either order.
Systems == {"level_progress", "level_switch", "level_delete_old",
            "collision_level_object_projectiles"}

Running == in_game /\ ~panicked

\* init_resources
ProgInit ==
  /\ world = << >>
  /\ next_entity = 1
  /\ commands = {}
  /\ level_state = [finished |-> FALSE, old_level_objects |-> {}]
  /\ in_game = FALSE
  /\ ran = {}
  /\ level_started_events = 0
  /\ level_switch_events = 0
  /\ door_animation_finished_events = << >>
  /\ collision_events = << >>
  /\ level_finished_events = 0
  /\ panicked = FALSE
  /\ emitted_since_started = 0
  /\ observed_nonzero = FALSE
  /\ awaiting_close = {}
  /\ older_batch = {}
  /\ level_entities = {}

\* spawn_initial_level, on entering the game: its commands are applied before
\* the first Update.
spawn_initial_level ==
  /\ ~in_game
  /\ in_game' = TRUE
  /\ world' = Apply(world, SpawnAll(LevelKinds(TRUE), next_entity, "spawn_initial_level"))
  /\ next_entity' = next_entity + Len(LevelKinds(TRUE))
  /\ level_entities' = next_entity..(next_entity + Len(LevelKinds(TRUE)) - 1)
  /\ UNCHANGED <<commands, level_state, ran, level_started_events,
                 level_switch_events, door_animation_finished_events,
                 collision_events, level_finished_events, panicked,
                 emitted_since_started, observed_nonzero, awaiting_close, older_batch>>
  /\ UNCHANGED <<gvars, mvars, xvars>>

\* Variant of level_progress that sends LevelFinished without looking at the
\* number of enemies.
level_progress_IgnoresCount ==
  /\ Running
  /\ ran = {}
  /\ ran' = ran \cup {"level_progress"}
  /\ LET finished == IF level_started_events > 0 THEN FALSE ELSE level_state.finished
         remaining_enemies == Cardinality(Enemies)
         send == ~finished
     IN /\ level_state' = [level_state EXCEPT !.finished = finished \/ send]
        /\ level_finished_events' = level_finished_events + (IF send THEN 1 ELSE 0)
        /\ emitted_since_started' =
             (IF level_started_events > 0 THEN 0 ELSE emitted_since_started)
             + (IF send THEN 1 ELSE 0)
        /\ observed_nonzero' =
             \/ remaining_enemies > 0
             \/ (level_started_events = 0 /\ observed_nonzero)
  /\ level_started_events' = 0
  /\ UNCHANGED <<world, next_entity, commands, in_game, level_switch_events,
                 door_animation_finished_events, collision_events, panicked,
                 awaiting_close, older_batch, level_entities>>
  /\ UNCHANGED <<gvars, mvars, xvars>>

\* Variant of level_progress that forgets to mark the level finished.
level_progress_NeverMarks ==
  /\ Running
  /\ ran = {}
  /\ ran' = ran \cup {"level_progress"}
  /\ LET finished == IF level_started_events > 0 THEN FALSE ELSE level_state.finished
         remaining_enemies == Cardinality(Enemies)
         send == remaining_enemies = 0 /\ ~finished
     IN /\ level_state' = [level_state EXCEPT !.finished = finished]
        /\ level_finished_events' = level_finished_events + (IF send THEN 1 ELSE 0)
        /\ emitted_since_started' =
             (IF level_started_events > 0 THEN 0 ELSE emitted_since_started)
             + (IF send THEN 1 ELSE 0)
        /\ observed_nonzero' =
             \/ remaining_enemies > 0
             \/ (level_started_events = 0 /\ observed_nonzero)
  /\ level_started_events' = 0
  /\ UNCHANGED <<world, next_entity, commands, in_game, level_switch_events,
                 door_animation_finished_events, collision_events, panicked,
                 awaiting_close, older_batch, level_entities>>
  /\ UNCHANGED <<gvars, mvars, xvars>>

\* level_progress: every LevelStarted event read resets finished; then, with
\* no enemy left and the level not finished, mark it and send LevelFinished.
level_progress ==
  /\ Running
  /\ ran = {}
  /\ ran' = ran \cup {"level_progress"}
  /\ LET finished == IF level_started_events > 0 THEN FALSE ELSE level_state.finished
         remaining_enemies == Cardinality(Enemies)
         send == remaining_enemies = 0 /\ ~finished
     IN /\ level_state' = [level_state EXCEPT !.finished = finished \/ send]
        /\ level_finished_events' = level_finished_events + (IF send THEN 1 ELSE 0)
        /\ emitted_since_started' =
             (IF level_started_events > 0 THEN 0 ELSE emitted_since_started)
             + (IF send THEN 1 ELSE 0)
        /\ observed_nonzero' =
             \/ remaining_enemies > 0
             \/ (level_started_events = 0 /\ observed_nonzero)
  /\ level_started_events' = 0
  /\ UNCHANGED <<world, next_entity, commands, in_game, level_switch_events,
                 door_animation_finished_events, collision_events, panicked,
                 awaiting_close, older_batch, level_entities>>
  /\ UNCHANGED <<gvars, mvars, xvars>>

\* level_switch: for every LevelSwitch event, snapshot the entities tagged
\* LevelObject, queue the spawns of the next level and of its light, and
\* store the snapshot.  The spawns of one event are not yet in the world when
\* the next event of the same run takes its snapshot.
level_switch ==
  /\ Running
  /\ "level_switch" \notin ran
  /\ ran' = ran \cup {"level_switch"}
  /\ IF level_switch_events = 0
     THEN UNCHANGED <<commands, next_entity, level_state, awaiting_close, older_batch, level_entities>>
     ELSE LET old_level_objects == LevelObjects
              per_level == Len(LevelKinds(FALSE))
          IN /\ commands' = commands \cup
                  UNION { SpawnAll(LevelKinds(FALSE), next_entity + (i - 1) * per_level,
                                   "level_switch") : i \in 1..level_switch_events }
             /\ next_entity' = next_entity + level_switch_events * per_level
             /\ level_state' = [level_state EXCEPT !.old_level_objects = old_level_objects]
             /\ awaiting_close' = old_level_objects
             /\ older_batch' = older_batch \cup level_state.old_level_objects
                  \cup (IF level_switch_events > 1 THEN old_level_objects ELSE {})
             /\ level_entities' =
                  (next_entity + (level_switch_events - 1) * per_level)
                    ..(next_entity + level_switch_events * per_level - 1)
  /\ level_switch_events' = 0
  /\ UNCHANGED <<world, in_game, level_started_events,
                 door_animation_finished_events, collision_events,
                 level_finished_events, panicked, emitted_since_started,
                 observed_nonzero>>
  /\ UNCHANGED <<gvars, mvars, xvars>>

\* The events of a queue, as a set.
Range(q) == { q[i] : i \in 1..Len(q) }

\* Variant of TeardownKinds: teardown on every finished animation.
TeardownKinds_Any == {"Open", "Close"}

\* if let DoorAnimationType::Close = e.animation_type: the kinds of
\* DoorAnimationFinished event on which level_delete_old tears the old level
\* down.
TeardownKinds == {"Close"}

\* level_delete_old: on the first Close event read, despawn every stored
\* handle and clear the list (later Close events of the run find it empty);
\* commands.get_entity(..).unwrap() panics on a handle that no longer exists.
level_delete_old ==
  /\ Running
  /\ "level_delete_old" \notin ran
  /\ IF Range(door_animation_finished_events) \cap TeardownKinds = {}
     THEN /\ ran' = ran \cup {"level_delete_old"}
          /\ door_animation_finished_events' = << >>
          /\ UNCHANGED <<commands, level_state, panicked, awaiting_close, older_batch, level_entities>>
     ELSE IF level_state.old_level_objects \subseteq Live
     THEN /\ ran' = ran \cup {"level_delete_old"}
          /\ door_animation_finished_events' = << >>
          /\ commands' = commands \cup
               { DespawnCmd(object, "level_delete_old") :
                   object \in level_state.old_level_objects }
          /\ level_state' = [level_state EXCEPT !.old_level_objects = {}]
          /\ awaiting_close' = {}
          /\ UNCHANGED <<panicked, older_batch, level_entities>>
     ELSE /\ panicked' = TRUE
          /\ UNCHANGED <<ran, door_animation_finished_events, commands,
                         level_state, awaiting_close, older_batch, level_entities>>
  /\ UNCHANGED <<world, next_entity, in_game, level_started_events,
                 level_switch_events, collision_events, level_finished_events,
                 emitted_since_started, observed_nonzero>>
  /\ UNCHANGED <<gvars, mvars, xvars>>

\* One collision event: the projectile to despawn, or 0 for `continue`.
HitProjectile(ev) ==
  IF ev.c1 \in Projectiles
  THEN (IF ev.c2 \in LevelColliders THEN ev.c1 ELSE 0)
  ELSE IF ev.c2 \in Projectiles
  THEN (IF ev.c1 \in LevelColliders THEN ev.c2 ELSE 0)
  ELSE 0

\* How many events the loop reads: it returns at the first event flagged
\* REMOVED, which it has read.
ReadUpTo(q) ==
  IF \E i \in 1..Len(q) : q[i].removed
  THEN CHOOSE i \in 1..Len(q) : q[i].removed /\ \A j \in 1..(i - 1) : ~q[j].removed
  ELSE Len(q)

\* collision_level_object_projectiles: despawn every projectile that hit a
\* LevelCollider; the projectile comes from the query, so it exists.
collision_level_object_projectiles ==
  /\ Running
  /\ ran = Systems \ {"collision_level_object_projectiles"}
  /\ ran' = Systems
  /\ LET n == ReadUpTo(collision_events)
         handled == { i \in 1..n : ~collision_events[i].removed }
         hit == { HitProjectile(collision_events[i]) : i \in handled } \ {0}
     IN /\ commands' = commands \cup
             { DespawnCmd(projectile, "collision_level_object_projectiles") :
                 projectile \in hit }
        /\ collision_events' = SubSeq(collision_events, n + 1, Len(collision_events))
  /\ UNCHANGED <<world, next_entity, level_state, in_game, level_started_events,
                 level_switch_events, door_animation_finished_events,
                 level_finished_events, panicked, emitted_since_started,
                 observed_nonzero, awaiting_close, older_batch, level_entities>>
  /\ UNCHANGED <<gvars, mvars, xvars>>

\* The end of the tick: the queued commands are applied, the LevelFinished
\* events of the tick have been delivered, and every system may run again.
EndTick ==
  /\ Running
  /\ ran = Systems
  /\ world' = Apply(world, commands)
  /\ commands' = {}
  /\ ran' = {}
  /\ level_finished_events' = 0
  /\ UNCHANGED <<next_entity, level_state, in_game, level_started_events,
                 level_switch_events, door_animation_finished_events,
                 collision_events, panicked, emitted_since_started,
                 observed_nonzero, awaiting_close, older_batch, level_entities>>
  /\ UNCHANGED <<gvars, mvars, xvars>>

\* ---- the other subsystems, as far as the progression systems see them ----
\* What they send or queue during a tick is placed before the systems of
\* LevelPlugin run (ran = {}): an event sent after its reader ran is read in
\* the next tick, exactly as one sent at the start of that tick, and queued
\* commands are applied at the end of the tick wherever they were queued.

\* The door subsystem sends LevelStarted.
SendLevelStarted ==
  /\ Running
  /\ ran = {}
  /\ level_started_events < MaxEvents
  /\ level_started_events' = level_started_events + 1
  /\ UNCHANGED <<world, next_entity, commands, level_state, in_game, ran,
                 level_switch_events, door_animation_finished_events,
                 collision_events, level_finished_events, panicked,
                 emitted_since_started, observed_nonzero, awaiting_close, older_batch, level_entities>>
  /\ UNCHANGED <<gvars, mvars, xvars>>

\* The door subsystem sends LevelSwitch (while entity ids remain for the
\* level it asks for).
SendLevelSwitch ==
  /\ Running
  /\ ran = {}
  /\ level_switch_events < MaxEvents
  /\ next_entity + (level_switch_events + 1) * Len(LevelKinds(FALSE)) <= MaxEntities + 1
  /\ level_switch_events' = level_switch_events + 1
  /\ UNCHANGED <<world, next_entity, commands, level_state, in_game, ran,
                 level_started_events, door_animation_finished_events,
                 collision_events, level_finished_events, panicked,
                 emitted_since_started, observed_nonzero, awaiting_close, older_batch, level_entities>>
  /\ UNCHANGED <<gvars, mvars, xvars>>

\* The door subsystem sends DoorAnimationFinished.
SendDoorAnimationFinished ==
  /\ Running
  /\ ran = {}
  /\ Len(door_animation_finished_events) < MaxDoorEvents
  /\ \E animation_type \in {"Open", "Close"} :
       door_animation_finished_events' =
         Append(door_animation_finished_events, animation_type)
  /\ UNCHANGED <<world, next_entity, commands, level_state, in_game, ran,
                 level_started_events, level_switch_events, collision_events,
                 level_finished_events, panicked, emitted_since_started,
                 observed_nonzero, awaiting_close, older_batch, level_entities>>
  /\ UNCHANGED <<gvars, mvars, xvars>>

\* The entities a projectile collides with: its CollisionGroups filter names
\* the level, the player and the enemies.
Colliding == { e \in Live : world[e] \in {"geometry", "player", "enemy"} }

\* The physics engine sends a collision event; only projectiles ask for
\* them (ActiveEvents::COLLISION_EVENTS), so one collider is a projectile.
SendCollision ==
  /\ Running
  /\ ran = {}
  /\ Len(collision_events) < MaxEvents
  /\ \E p \in Projectiles, o \in Colliding, first \in BOOLEAN, removed \in BOOLEAN :
       collision_events' = Append(collision_events,
         [c1 |-> IF first THEN p ELSE o, c2 |-> IF first THEN o ELSE p,
          removed |-> removed])
  /\ UNCHANGED <<world, next_entity, commands, level_state, in_game, ran,
                 level_started_events, level_switch_events,
                 door_animation_finished_events, level_finished_events,
                 panicked, emitted_since_started, observed_nonzero,
                 awaiting_close, older_batch, level_entities>>
  /\ UNCHANGED <<gvars, mvars, xvars>>

\* weapon_shoot -> pistol_shoot: commands.spawn(ProjectileBundle { .. }).
Shoot ==
  /\ Running
  /\ ran = {}
  /\ next_entity <= MaxEntities
  /\ Cardinality(Projectiles)
       + Cardinality({ c \in commands : c.op = "spawn" /\ c.kind = "projectile" })
       < MaxProjectiles
  /\ commands' = commands \cup {SpawnCmd(next_entity, "projectile", "weapon_shoot")}
  /\ next_entity' = next_entity + 1
  /\ UNCHANGED <<world, level_state, in_game, ran, level_started_events,
                 level_switch_events, door_animation_finished_events,
                 collision_events, level_finished_events, panicked,
                 emitted_since_started, observed_nonzero, awaiting_close, older_batch, level_entities>>
  /\ UNCHANGED <<gvars, mvars, xvars>>

\* The damage subsystem despawns an enemy.
KillEnemy ==
  /\ Running
  /\ ran = {}
  /\ \E e \in Enemies :
       /\ DespawnCmd(e, "damage") \notin commands
       /\ commands' = commands \cup {DespawnCmd(e, "damage")}
  /\ UNCHANGED <<world, next_entity, level_state, in_game, ran,
                 level_started_events, level_switch_events,
                 door_animation_finished_events, collision_events,
                 level_finished_events, panicked, emitted_since_started,
                 observed_nonzero, awaiting_close, older_batch, level_entities>>
  /\ UNCHANGED <<gvars, mvars, xvars>>


\* ------------------------------------------------------------------------
\* player_move
\* ------------------------------------------------------------------------
\* Vec3 as a triple.  The program computes in f32; the model computes in
\* exact arithmetic: lengths are counted in 1/Unit, contact normals are unit
\* vectors given as n/NormalScale with n an integer triple, and every
\* division below is exact because a displacement is divided at most three
\* times in one call.
MaxTicks == 1
NormalScale == 5
Unit == (NormalScale * NormalScale) * (NormalScale * NormalScale) * (NormalScale * NormalScale)

ZERO == <<0, 0, 0>>
Z == <<0, 0, 1>>
Add(a, b) == <<a[1] + b[1], a[2] + b[2], a[3] + b[3]>>
Scale(a, k) == <<a[1] * k, a[2] * k, a[3] * k>>
Dot(a, b) == a[1] * b[1] + a[2] * b[2] + a[3] * b[3]
Cross(a, b) == <<a[2] * b[3] - a[3] * b[2],
                 a[3] * b[1] - a[1] * b[3],
                 a[1] * b[2] - a[2] * b[1]>>
Shrink(a, k) == <<a[1] \div k, a[2] \div k, a[3] \div k>>

\* PlayerVelocity.velocity and time.delta_seconds(), in whole units
Velocities == {<<1, 0, 0>>, <<0, -1, 0>>, <<1, 1, 0>>, <<4, 3, 0>>, <<1, 0, 1>>}
Deltas == {1, 2}

\* Unit contact normals (times NormalScale): along the axes, oblique in the
\* horizontal plane, vertical, and tilted out of the horizontal plane.
Normals == {<<5, 0, 0>>, <<-5, 0, 0>>, <<0, 5, 0>>, <<3, 4, 0>>, <<-4, -3, 0>>,
            <<0, 0, 5>>, <<0, 3, 4>>}

\* What cast_shape returns: None, or Some((_, hit)) with hit.status and,
\* for a contact, hit.details.normal1.
Hit(status, normal1) == [status |-> status, normal1 |-> normal1]
Hits ==
  {Hit("None", ZERO), Hit("Penetrating", ZERO), Hit("Failed", ZERO)}
  \cup { Hit("Converged", n) : n \in Normals }

\* rapier_context.cast_shape(shape_pos, .., shape_vel, ..): the physics world
\* does not change during the call, so a query asked before gets the answer
\* it got.
cast_shape(shape_pos, shape_vel, asked) ==
  LET same == { k \in 1..Len(asked) :
                  asked[k].shape_pos = shape_pos /\ asked[k].shape_vel = shape_vel }
  IN IF same = {} THEN Hits ELSE { asked[k].hit : k \in same }

\* Variant of wall_parrallel that slides along the normal.
wall_parrallel_Normal(normal1) == normal1

\* hit.details.unwrap().normal1.cross(Vec3::Z), times NormalScale
wall_parrallel(normal1) == Cross(normal1, Z)

\* movement = wall_parrallel * wall_parrallel.dot(movement)
WallSlide(m, normal1) ==
  Shrink(Scale(wall_parrallel(normal1), Dot(wall_parrallel(normal1), m)),
         NormalScale * NormalScale)

\* let shape_pos = transform.translation + movement
ShapePos(m) == Add(translation, m)

\* Variant of Blocked that keeps the displacement.
Blocked_Keeps(m) == m

\* if i == 3 { movement = Vec3::ZERO; break; }
Blocked(m) == ZERO

\* Variant of ReturnEarly that still moves the body.
ReturnEarly_Moves(m) == Add(translation, m)

\* TOIStatus::Penetrating => return: translation is not written
ReturnEarly(m) == translation

\* Variant of Moved that applies the displacement twice.
Moved_Twice(m) == Add(translation, Scale(m, 2))

\* transform.translation += movement
Moved(m) == Add(translation, m)

\* for i in 0..4 { .. }: every way the loop can run from pass i on with
\* displacement m, as the displacement it ends with, whether it left through
\* `return`, and the queries it made.
RECURSIVE Passes(_, _, _)
Passes(pass, m, asked) ==
  IF pass = 4
  THEN {[movement |-> m, returned |-> FALSE, sweeps |-> asked]}
  ELSE UNION {
    LET log == Append(asked, [shape_pos |-> ShapePos(m), shape_vel |-> m, hit |-> hit])
    IN CASE hit.status = "Converged" ->
              IF pass = 3
              THEN {[movement |-> Blocked(m), returned |-> FALSE, sweeps |-> log]}
              ELSE Passes(pass + 1, WallSlide(m, hit.normal1), log)
         [] hit.status = "Penetrating" ->
              {[movement |-> m, returned |-> TRUE, sweeps |-> log]}
         [] OTHER -> Passes(pass + 1, m, log)
    : hit \in cast_shape(ShapePos(m), m, asked) }

\* player_move, one call (the player exists).
player_move ==
  /\ ticks < MaxTicks
  /\ \E v \in Velocities, dt \in Deltas :
       \E run \in Passes(0, Scale(v, dt * Unit), << >>) :
         /\ velocity' = v
         /\ delta_seconds' = dt
         /\ movement' = run.movement
         /\ returned' = run.returned
         /\ sweeps' = run.sweeps
         /\ translation' = IF run.returned THEN ReturnEarly(run.movement)
                           ELSE Moved(run.movement)
  /\ start' = translation
  /\ ticks' = ticks + 1
  /\ UNCHANGED <<gvars, pvars, xvars>>

\* Where the player stands when the game starts.
Starts == {ZERO, <<3 * Unit, -2 * Unit, Unit>>}

MoveStart ==
  /\ translation \in Starts
  /\ velocity = ZERO
  /\ delta_seconds = 0
  /\ movement = ZERO
  /\ returned = FALSE
  /\ start = translation
  /\ sweeps = << >>
  /\ ticks = 0

MoveIdle ==
  /\ translation = ZERO
  /\ velocity = ZERO
  /\ delta_seconds = 0
  /\ movement = ZERO
  /\ returned = FALSE
  /\ start = ZERO
  /\ sweeps = << >>
  /\ ticks = 0

GenIdle ==
  /\ grid_size = GridSmall
  /\ grid = EmptyGrid
  /\ pc = "start"
  /\ previus_door = NoDoor
  /\ strip = 0
  /\ placed = 0
  /\ trapped_removed = 0

Init == GenIdle /\ ProgInit /\ MoveIdle /\ ExtraIdle

Next ==
  \/ spawn_initial_level
  \/ level_progress
  \/ level_switch
  \/ level_delete_old
  \/ collision_level_object_projectiles
  \/ EndTick
  \/ SendLevelStarted
  \/ SendLevelSwitch
  \/ SendDoorAnimationFinished
  \/ SendCollision
  \/ Shoot
  \/ KillEnemy

Spec == Init /\ [][Next]_vars

InitGen == GenIdle /\ ProgInit /\ MoveIdle /\ ExtraIdle

NextGen ==
  \/ GenerateBorderAndDoors
  \/ GenerateStrip
  \/ RemoveTrappedPlaces
  \/ GenerateWeaponSpawn
  \/ WeaponSpawnsDone
  \/ GenerateEnemy
  \/ ReturnGrid
  \/ SpawnTutorialGrid
  \/ SwitchLevel

SpecGen == InitGen /\ [][NextGen]_vars

InitMove == GenIdle /\ ProgInit /\ MoveStart /\ ExtraIdle

NextMove == player_move

SpecMove == InitMove /\ [][NextMove]_vars
\* ---- the generator on the larger grid -----------------------------------
\* The place whose surroundings are enumerated: two cells side by side and
\* the cells around them.
PlaceInside == {<<3, 3>>, <<3, 4>>}
PlaceAround == ((2..4) \X (2..5)) \ PlaceInside

\* The draws enumerated on the larger grid: the left and right doors at the
\* near end of their range, strips that stay around the place and add three
\* cells each or more, weapon and enemy cells in the place or in the far
\* corner of the range.
LargeDraws ==
  /\ grid[2][0].kind # "Column"
  /\ grid[2][GRID_SIZE - 1].kind # "Column"
  /\ \A y \in 2..(GRID_SIZE - 3), x \in 2..(GRID_SIZE - 3) :
       /\ grid[y][x] = Column => <<y, x>> \in PlaceAround
       /\ grid[y][x] \in {Weapon, Enemy} =>
            <<y, x>> \in PlaceInside \cup {<<GRID_SIZE - 3, GRID_SIZE - 3>>}
  /\ Cardinality({ c \in PlaceAround : grid[c[1]][c[2]] = Column }) >= STRIP_LENGTH * strip

InitLarge ==
  /\ grid_size = GridLarge
  /\ grid = EmptyGrid
  /\ pc = "start"
  /\ previus_door = NoDoor
  /\ strip = 0
  /\ placed = 0
  /\ trapped_removed = 0
  /\ ProgInit
  /\ MoveIdle
  /\ ExtraIdle

NextLarge ==
  \/ GenerateBorderAndDoors /\ LargeDraws'
  \/ GenerateStrip /\ LargeDraws'
  \/ RemoveTrappedPlaces /\ LargeDraws'
  \/ GenerateWeaponSpawn /\ LargeDraws'
  \/ WeaponSpawnsDone
  \/ GenerateEnemy /\ LargeDraws'
  \/ ReturnGrid
  \/ SpawnTutorialGrid

SpecLarge == InitLarge /\ [][NextLarge]_vars

\* ------------------------------------------------------------------------
\* Properties of the generator
\* ------------------------------------------------------------------------
Returned == pc = "done"

\* The border cells of one side, as <<y, x>>.
Side(t) ==
  CASE t = "Top" -> { <<0, x>> : x \in Idx }
    [] t = "Bottom" -> { <<GRID_SIZE - 1, x>> : x \in Idx }
    [] t = "Left" -> { <<y, 0>> : y \in Idx }
    [] t = "Right" -> { <<y, GRID_SIZE - 1>> : y \in Idx }

DoorCellsOn(t) == { c \in Side(t) : grid[c[1]][c[2]].kind = "Door" }

InteriorCells == (2..(GRID_SIZE - 3)) \X (2..(GRID_SIZE - 3))
AllCells == Idx \X Idx
CellsOf(k) == { c \in AllCells : grid[c[1]][c[2]].kind = k }

\* C1: in every returned grid each border side holds exactly one Door cell,
\* of that side's type, and every other border cell is Column.
C1_BorderOneDoorPerSide ==
  Returned =>
    \A t \in DoorType :
      /\ Cardinality(DoorCellsOn(t)) = 1
      /\ \A c \in Side(t) :
           \/ grid[c[1]][c[2]] = Column
           \/ grid[c[1]][c[2]].kind = "Door" /\ grid[c[1]][c[2]].door_type = t

C1_Witness ==
  /\ Returned
  /\ previus_door.kind = "Door"
  /\ \E c \in InteriorCells : grid[c[1]][c[2]] = Column
  /\ grid[2][0].kind = "Door"
  /\ grid[0][GRID_SIZE - 3].kind = "Door"

\* C2: a grid generated for an exit door on side S at position p has, on the
\* side opposite S, a door at position p in state TemporaryOpen; the doors of
\* the other three sides are Locked.  This holds from the stamping of the
\* doors until the grid is returned, in every level of the session.
C2_EntryCell ==
  CASE previus_door.door_type = "Top" -> <<GRID_SIZE - 1, previus_door.grid_pos>>
    [] previus_door.door_type = "Bottom" -> <<0, previus_door.grid_pos>>
    [] previus_door.door_type = "Left" -> <<previus_door.grid_pos, GRID_SIZE - 1>>
    [] previus_door.door_type = "Right" -> <<previus_door.grid_pos, 0>>

C2_Continuity ==
  (pc \in {"walls", "weapons", "enemies", "done"} /\ previus_door.kind = "Door") =>
    LET e == C2_EntryCell IN
      /\ grid[e[1]][e[2]].kind = "Door"
      /\ grid[e[1]][e[2]].grid_pos = previus_door.grid_pos
      /\ grid[e[1]][e[2]].door_state = "TemporaryOpen"
      /\ \A c \in AllCells :
           (grid[c[1]][c[2]].kind = "Door" /\ c # e) =>
             grid[c[1]][c[2]].door_state = "Locked"
      /\ Cardinality(CellsOf("Door")) = 4

C2_Witness ==
  /\ Returned
  /\ previus_door = Door("Left", "Open", GRID_SIZE - 3)
  /\ grid[GRID_SIZE - 3][GRID_SIZE - 1] = Door("Right", "TemporaryOpen", GRID_SIZE - 3)
  /\ grid[2][0] = Door("Left", "Locked", 2)

\* C7: in a returned grid no cell of [2, GRID_SIZE - 2)^2 is Empty with all
\* four orthogonal neighbours Column.
C7_NoTrappedCell ==
  Returned =>
    \A c \in InteriorCells :
      ~ /\ grid[c[1]][c[2]] = Empty
        /\ grid[c[1] - 1][c[2]] = Column
        /\ grid[c[1] + 1][c[2]] = Column
        /\ grid[c[1]][c[2] - 1] = Column
        /\ grid[c[1]][c[2] + 1] = Column

C7_Witness == Returned /\ trapped_removed > 0

\* C8: a returned grid holds exactly LEVEL_WEAPON_SPAWNS Weapon cells and
\* LEVEL_ENEMIES Enemy cells, all in [2, GRID_SIZE - 2)^2, and a cell that
\* becomes Weapon or Enemy was Empty in the step before.
C8_Counts ==
  Returned =>
    /\ Cardinality(CellsOf("Weapon")) = LEVEL_WEAPON_SPAWNS
    /\ Cardinality(CellsOf("Enemy")) = LEVEL_ENEMIES
    /\ CellsOf("Weapon") \cup CellsOf("Enemy") \subseteq InteriorCells

C8_StampedOnEmpty ==
  \A c \in AllCells :
    (grid'[c[1]][c[2]] \in {Weapon, Enemy} /\ grid'[c[1]][c[2]] # grid[c[1]][c[2]]) =>
      grid[c[1]][c[2]] = Empty

C8_Placement == [](C8_Counts) /\ [][C8_StampedOnEmpty]_vars

C8_Witness ==
  /\ Returned
  /\ CellsOf("Weapon") # {}
  /\ CellsOf("Enemy") # {}
  /\ \E c \in InteriorCells : grid[c[1]][c[2]] = Column

C10_Tutorial ==
  pc = "spawned" =>
    /\ CellsOf("Weapon") = {}
    /\ CellsOf("Enemy") = {}
    /\ \E x \in Idx :
         /\ CellsOf("Player") = { <<4, x>> }
         /\ grid[0][x].kind = "Door"
         /\ grid[0][x].door_type = "Top"
         /\ \A y \in Idx : grid[y][x - 2] = Column /\ grid[y][x + 2] = Column
         /\ \A x2 \in Idx : grid[6][x2] = Column

C10_Witness ==
  /\ pc = "spawned"
  /\ grid[4][GRID_SIZE - 3] = Player
  /\ grid[1][GRID_SIZE - 3] = Empty
\* ------------------------------------------------------------------------
\* Properties of the progression systems
\* ------------------------------------------------------------------------
\* The step is a run of the named system.
RunOf(system) == system \notin ran /\ system \in ran'

\* The despawns level_delete_old queues in the step.
TeardownIssued == { c \in commands' \ commands : c.by = "level_delete_old" }

\* C3: level_delete_old queues a despawn only while it handles a Close event,
\* and only of entities a LevelSwitch handled before found tagged LevelObject
\* and no Close event was handled since; a run that reads only Open events
\* queues nothing and leaves old_level_objects and the world unchanged.
C3_Step ==
  /\ TeardownIssued # {} =>
       /\ RunOf("level_delete_old")
       /\ "Close" \in Range(door_animation_finished_events)
       /\ \A c \in TeardownIssued : c.op = "despawn" /\ c.e \in awaiting_close
  /\ (RunOf("level_delete_old") /\ "Close" \notin Range(door_animation_finished_events)) =>
       /\ commands' = commands
       /\ world' = world
       /\ level_state'.old_level_objects = level_state.old_level_objects

C3_TeardownOrdering == [][C3_Step]_vars

C3_Witness ==
  /\ \E c \in commands : c.by = "level_delete_old"
  /\ level_state.old_level_objects = {}
  /\ "level_switch" \in ran

\* C4: when level_delete_old handles a Close event and a stored handle no
\* longer exists, it does not panic, it despawns the handles that still
\* exist and it clears old_level_objects.
C4_Step ==
  ( /\ Running
    /\ "level_delete_old" \notin ran
    /\ "Close" \in Range(door_animation_finished_events)
    /\ ~(level_state.old_level_objects \subseteq Live)
    /\ (RunOf("level_delete_old") \/ panicked' # panicked) ) =>
  ( /\ ~panicked'
    /\ level_state'.old_level_objects = {}
    /\ \A object \in level_state.old_level_objects \cap Live :
         DespawnCmd(object, "level_delete_old") \in commands' )

C4_MissingHandleIsNoOp == [][C4_Step]_vars

\* C5: level_progress sends at most one LevelFinished between two LevelStarted
\* events it reads (or from the start to the first), and a run that finds no
\* enemy while the level is not marked finished sends one and marks it.
C5_Step ==
  ( /\ RunOf("level_progress")
    /\ Enemies = {}
    /\ (~level_state.finished \/ level_started_events > 0) ) =>
  ( /\ level_finished_events' = level_finished_events + 1
    /\ level_state'.finished )

C5_OncePerLevel == [](emitted_since_started <= 1) /\ [][C5_Step]_vars

C5_Witness ==
  /\ level_finished_events = 1
  /\ emitted_since_started = 1
  /\ observed_nonzero
  /\ level_state.finished
  /\ next_entity > 4

\* C6, as claimed: LevelFinished is sent only in a level in which
\* level_progress has counted a hostile before.
C6_OnlyAfterHostileSeen == level_finished_events > 0 => observed_nonzero

\* C6, amended: LevelFinished is sent only by a run of level_progress that
\* finds no live enemy while the level is not marked finished (a LevelStarted
\* event read in the run unmarks it), and the run marks it; no hostile need
\* have been counted before.
C6_Step ==
  level_finished_events' > level_finished_events =>
    /\ RunOf("level_progress")
    /\ Enemies = {}
    /\ (~level_state.finished \/ level_started_events > 0)
    /\ level_state'.finished
    /\ level_finished_events' = level_finished_events + 1

C6_SentOnlyWithNoEnemy == [][C6_Step]_vars

\* The tutorial level: LevelFinished sent before any enemy was spawned.
C6_Witness ==
  /\ level_finished_events = 1
  /\ ~observed_nonzero
  /\ next_entity = Len(LevelKinds(TRUE)) + 1
  /\ Enemies = {}
\* ------------------------------------------------------------------------
\* Properties of the tutorial grid and of the paths through a level
\* ------------------------------------------------------------------------
\* C11: the tutorial grid keeps the outer ring: each border side holds
\* exactly one Door cell and is Column elsewhere.
C11_TutorialRing ==
  pc = "spawned" =>
    \A t \in DoorType :
      /\ Cardinality(DoorCellsOn(t)) = 1
      /\ \A c \in Side(t) : grid[c[1]][c[2]].kind \in {"Door", "Column"}

\* <<y, x>> cells next to each other
Adjacent(c, d) ==
  \/ c[1] = d[1] /\ (c[2] = d[2] + 1 \/ d[2] = c[2] + 1)
  \/ c[2] = d[2] /\ (c[1] = d[1] + 1 \/ d[1] = c[1] + 1)

\* The cells a path of adjacent cells that are not Column reaches from seen.
RECURSIVE Reach(_)
Reach(seen) ==
  LET more == { c \in AllCells \ seen :
                  /\ grid[c[1]][c[2]] # Column
                  /\ \E d \in seen : Adjacent(c, d) }
  IN IF more = {} THEN seen ELSE Reach(seen \cup more)

\* C12: in every returned grid every cell inside the border that is not
\* Column is reached from the doors.
C12_Traversable ==
  Returned =>
    \A c \in (1..(GRID_SIZE - 2)) \X (1..(GRID_SIZE - 2)) :
      grid[c[1]][c[2]] # Column => c \in Reach(CellsOf("Door"))
\* ------------------------------------------------------------------------
\* Properties of level_switch and level_delete_old over several switches
\* ------------------------------------------------------------------------
\* The step handles a LevelSwitch event while handles are still stored.
SwitchOverStored ==
  /\ RunOf("level_switch")
  /\ level_switch_events > 0
  /\ level_state.old_level_objects # {}

\* C13, as claimed: a LevelSwitch handled while handles are still stored
\* drops them from old_level_objects, and no later Close event makes
\* level_delete_old despawn them.
C13_OlderBatchLeaked ==
  /\ [][SwitchOverStored =>
          level_state'.old_level_objects \cap level_state.old_level_objects = {}]_vars
  /\ [](\A e \in older_batch : DespawnCmd(e, "level_delete_old") \notin commands)

\* C13, amended: a LevelSwitch handled while handles are still stored stores
\* again every one of them that is still alive, and such an entity stays
\* stored until level_delete_old has queued its despawn.
C13_OlderBatchKept ==
  /\ [][SwitchOverStored =>
          level_state.old_level_objects \cap Live
            \subseteq level_state'.old_level_objects]_vars
  /\ [](\A e \in older_batch \cap Live :
          \/ e \in level_state.old_level_objects
          \/ \E c \in commands : c.op = "despawn" /\ c.e = e)

\* A later Close event tears down an entity of a replaced batch.
C13_Witness ==
  /\ ~panicked
  /\ \E e \in older_batch \cap Live : DespawnCmd(e, "level_delete_old") \in commands
  /\ level_state.old_level_objects = {}

\* The step is level_delete_old reading a Close event.
HandlesClose ==
  /\ Running
  /\ "level_delete_old" \notin ran
  /\ "Close" \in Range(door_animation_finished_events)
  /\ (RunOf("level_delete_old") \/ panicked' # panicked)

\* C14: handling a Close event queues the despawn of every stored handle and
\* leaves old_level_objects empty in the same step, and with nothing stored
\* it changes nothing; so old_level_objects is never a batch of which a part
\* was torn down.
C14_TeardownAtomic ==
  [][HandlesClose =>
       /\ ~panicked'
       /\ level_state'.old_level_objects = {}
       /\ commands' = commands \cup
            { DespawnCmd(object, "level_delete_old") :
                object \in level_state.old_level_objects }
       /\ world' = world]_vars
\* ------------------------------------------------------------------------
\* Properties of player_move
\* ------------------------------------------------------------------------
\* d = velocity * dt, the displacement player_move starts from
TentativeDisplacement == Scale(velocity, delta_seconds * Unit)

\* The sweeps of the tick, and the statuses they reported
SweepIndex == 1..Len(sweeps)
StatusOf(k) == sweeps[k].hit.status

\* C15: when every sweep of the tick reports no contact, the position after
\* the tick is the position before it plus d = velocity * dt, and the
\* displacement is still d.
C15_ObstacleFree ==
  (ticks > 0 /\ \A k \in SweepIndex : StatusOf(k) = "None") =>
    /\ movement = TentativeDisplacement
    /\ translation = Add(start, TentativeDisplacement)

\* An obstacle-free tick that starts away from the origin and moves along
\* both horizontal axes.
C15_Witness ==
  /\ ticks > 0
  /\ \A k \in SweepIndex : StatusOf(k) = "None"
  /\ start # ZERO
  /\ velocity = <<4, 3, 0>>
  /\ delta_seconds = 2

\* C16: a sweep that reports no contact is the last one of its tick, so an
\* obstacle-free tick asks one query, and every tick asks 1 to 4 queries.
C16_StopsOnNoContact ==
  ticks > 0 =>
    /\ Len(sweeps) \in 1..4
    /\ \A k \in SweepIndex : StatusOf(k) = "None" => k = Len(sweeps)

\* C17: every sweep of the tick starts at the position the body has at the
\* start of the tick and sweeps along the displacement of that pass.
C17_SweepFromCurrent ==
  ticks > 0 =>
    \A k \in SweepIndex :
      /\ sweeps[k].shape_pos = start
      /\ k = 1 => sweeps[k].shape_vel = TentativeDisplacement

\* The first sweep meets a wall whose normal is horizontal and lies along d:
\* a flat wall perpendicular to the displacement.
PerpendicularWall ==
  /\ StatusOf(1) = "Converged"
  /\ sweeps[1].hit.normal1[3] = 0
  /\ Cross(sweeps[1].hit.normal1, TentativeDisplacement) = ZERO

\* C18: a converged contact on the fourth pass zeroes the displacement and
\* leaves the position as it was; and a body whose displacement is
\* perpendicular to the wall it meets ends the tick where it started.
C18_BlockedOnFinalPass ==
  ticks > 0 =>
    /\ (Len(sweeps) = 4 /\ StatusOf(4) = "Converged") =>
         movement = ZERO /\ translation = start
    /\ PerpendicularWall => translation = start

\* The fourth pass meets a contact while the body still has a displacement
\* left from sliding along the walls before.
C18_Witness ==
  /\ ticks > 0
  /\ Len(sweeps) = 4
  /\ \A k \in SweepIndex : StatusOf(k) = "Converged"
  /\ sweeps[4].shape_vel # ZERO
  /\ movement = ZERO
  /\ translation = start

\* C19: a penetrating contact on any pass, whatever the passes before it
\* did, leaves the position after the tick equal to the position before it.
C19_PenetratingAborts ==
  (ticks > 0 /\ \E k \in SweepIndex : StatusOf(k) = "Penetrating") =>
    /\ returned
    /\ translation = start

\* A penetrating contact on the third pass, after two slides that left a
\* displacement.
C19_Witness ==
  /\ ticks > 0
  /\ Len(sweeps) = 3
  /\ StatusOf(1) = "Converged"
  /\ StatusOf(2) = "Converged"
  /\ StatusOf(3) = "Penetrating"
  /\ movement # ZERO
  /\ translation = start

\* The passes before the final one that met a converged contact
SlidePasses == { k \in SweepIndex : k < 4 /\ StatusOf(k) = "Converged" }

\* C20: a converged contact before the final pass replaces the displacement
\* m by w * (w . m), w = normal x Z; for a horizontal unit normal the new
\* displacement has no component along the normal, has the component of m
\* along w, and is m itself when m lies along w.
C20_SlideAlongWall ==
  ticks > 0 =>
    \A k \in SlidePasses :
      LET m == sweeps[k].shape_vel
          n == sweeps[k].hit.normal1
          w == Cross(n, Z)
          replaced == sweeps[k + 1].shape_vel
      IN /\ k + 1 \in SweepIndex
         /\ Scale(replaced, NormalScale * NormalScale) = Scale(w, Dot(w, m))
         /\ n[3] = 0 =>
              /\ Dot(replaced, n) = 0
              /\ Dot(replaced, w) = Dot(m, w)
              /\ (Cross(m, w) = ZERO => replaced = m)

\* A displacement oblique to a wall with an oblique horizontal normal is
\* replaced by a shorter one that is not zero.
C20_Witness ==
  /\ ticks > 0
  /\ \E k \in SlidePasses :
       /\ sweeps[k].hit.normal1 = <<3, 4, 0>>
       /\ sweeps[k].shape_vel = Scale(<<1, 1, 0>>, Unit)
       /\ sweeps[k + 1].shape_vel \notin {ZERO, sweeps[k].shape_vel}
\* ------------------------------------------------------------------------
\* Properties of the cells next to the border
\* ------------------------------------------------------------------------
\* The cells at distance 1 from the border: rows 1 and GRID_SIZE - 2,
\* columns 1 and GRID_SIZE - 2, without the border itself.
RingOne ==
  { c \in (1..(GRID_SIZE - 2)) \X (1..(GRID_SIZE - 2)) :
      c[1] \in {1, GRID_SIZE - 2} \/ c[2] \in {1, GRID_SIZE - 2} }

\* The cells next to c, as <<y, x>>
Neighbours(c) ==
  { <<c[1] - 1, c[2]>>, <<c[1] + 1, c[2]>>, <<c[1], c[2] - 1>>, <<c[1], c[2] + 1>> }
    \cap AllCells

\* The cells reached from seen by paths of adjacent cells that are not
\* Column, front being the cells of seen whose neighbours are still to visit.
RECURSIVE Spread(_, _)
Spread(seen, front) ==
  LET more == { c \in UNION { Neighbours(f) : f \in front } :
                  c \notin seen /\ grid[c[1]][c[2]] # Column }
  IN IF more = {} THEN seen ELSE Spread(seen \cup more, more)

\* C26: in every returned grid no cell at distance 1 from the border is
\* Column, and the doors are connected to each other by paths of adjacent
\* cells that are not Column (a path read backwards is a path, so it is
\* enough that one door reaches all of them).
C26_RingFreeDoorsConnected ==
  Returned =>
    /\ \A c \in RingOne : grid[c[1]][c[2]] # Column
    /\ \E d \in CellsOf("Door") :
         CellsOf("Door") \subseteq Spread({d}, {d})

\* A grid returned for an exit door, with Column cells in every corner of
\* the carving area, next to the ring.
C26_Witness ==
  /\ Returned
  /\ previus_door.kind = "Door"
  /\ grid[2][2] = Column
  /\ grid[2][GRID_SIZE - 3] = Column
  /\ grid[GRID_SIZE - 3][2] = Column
  /\ grid[GRID_SIZE - 3][GRID_SIZE - 3] = Column
\* ------------------------------------------------------------------------
\* Properties of the indices generate_level uses
\* ------------------------------------------------------------------------
\* [2, GRID_SIZE - 2), where door positions and the carving area lie
DoorRange == 2..(GRID_SIZE - 3)

\* What the draws of generate_level return
Draws == gen_range(2, GRID_SIZE - 2)

\* The <<y, x>> a phase of generate_level reads or writes, over every draw:
\* the border loops; the Player cell and the four door stamps for the exit
\* door prev; the start of a strip and the steps valid_pos offers from a
\* cell the walk can stand on; the cells the "trapped" pass visits with
\* their four neighbours; the cells the placement loops draw.
BorderIndices == UNION { Side(t) : t \in DoorType }

DoorIndices(prev) ==
  UNION { { <<1, DoorPos(prev, "Top", drawn)>>,
            <<0, DoorPos(prev, "Top", drawn)>>,
            <<GRID_SIZE - 1, DoorPos(prev, "Bottom", drawn)>>,
            <<DoorPos(prev, "Left", drawn), 0>>,
            <<DoorPos(prev, "Right", drawn), GRID_SIZE - 1>> } : drawn \in Draws }

StripIndices ==
  LET starts == Draws \X Draws
  IN { <<c[2], c[1]>> : c \in starts \cup UNION { ValidPos(s) : s \in starts } }

TrappedIndices ==
  UNION { { <<y, x>>, <<y - 1, x>>, <<y + 1, x>>, <<y, x + 1>>, <<y, x - 1>> } :
            y \in Draws, x \in Draws }

PlacementIndices == Draws \X Draws

Corners == {0, GRID_SIZE - 1} \X {0, GRID_SIZE - 1}

\* C23: along every sequence of calls, each with a door of the grid before
\* it as exit door, the exit door and every door of the grid has its
\* position in [2, GRID_SIZE - 2) and is on no corner, a strip's walk never
\* leaves [2, GRID_SIZE - 2), and every index a phase of the call that
\* starts uses is an index of the grid.
C23_GenerateLevelInBounds ==
  /\ previus_door.kind = "Door" => previus_door.grid_pos \in DoorRange
  /\ \A c \in CellsOf("Door") :
       /\ grid[c[1]][c[2]].grid_pos \in DoorRange
       /\ c \notin Corners
  /\ pc = "start" =>
       /\ \A s \in Draws \X Draws : ValidPos(s) \subseteq DoorRange \X DoorRange
       /\ StripIndices \cup PlacementIndices \subseteq DoorRange \X DoorRange
       /\ BorderIndices \cup DoorIndices(previus_door) \cup StripIndices
            \cup TrappedIndices \cup PlacementIndices \subseteq AllCells

\* The third level in a row: a grid returned for an exit door at the far end
\* of the range, itself on a grid that was generated for an exit door.
C23_Witness ==
  /\ Returned
  /\ previus_door.kind = "Door"
  /\ previus_door.grid_pos = GRID_SIZE - 3
  /\ previus_door.door_state = "Open"
  /\ grid[GRID_SIZE - 3][GRID_SIZE - 3] = Column
  /\ \E c \in CellsOf("Door") : grid[c[1]][c[2]].door_state = "TemporaryOpen"
\* ------------------------------------------------------------------------
\* Properties of the room left for the placements
\* ------------------------------------------------------------------------
\* The configured sizes: GRID_SIZE = LEVEL_SIZE / COLUMN_SIZE = 40,
\* FILL_AMOUNT = 0.02, LEVEL_WEAPON_SPAWNS = 4.
LEVEL_SIZE == 200
COLUMN_SIZE == 5
FILL_AMOUNT_PERCENT == 2
WEAPON_SPAWNS_CONFIGURED == 4
GridConfigured == LEVEL_SIZE \div COLUMN_SIZE
StripsConfigured ==
  ((GridConfigured * GridConfigured * FILL_AMOUNT_PERCENT) \div 100) \div STRIP_LENGTH

ColumnsInside == Cardinality({ c \in InteriorCells : grid[c[1]][c[2]] = Column })
EmptyInside == { c \in InteriorCells : grid[c[1]][c[2]] = Empty }

\* The cells of [2, n - 2)^2 that are Empty at least, on a grid of size n,
\* after strips strips, the "trapped" pass and placed placements: a strip
\* carves at most STRIP_LENGTH + 1 cells, and the pass fills at most as
\* many cells as the strips carved.
EmptyAtLeast(n, strips, already_placed) ==
  (n - 4) * (n - 4) - 2 * (STRIP_LENGTH + 1) * strips - already_placed

\* A placement loop is about to draw.
PlacementRuns ==
  \/ pc = "weapons" /\ placed < LEVEL_WEAPON_SPAWNS
  \/ pc = "enemies" /\ placed < LEVEL_ENEMIES

AlreadyPlaced == IF pc = "weapons" THEN placed ELSE LEVEL_WEAPON_SPAWNS + placed

SwitchHandled == RunOf("level_switch") /\ level_switch_events > 0

\* The live entities of the last spawned level, and those of them spawned
\* from a LevelColliderBundle or as the directional light.
LevelEntities == level_entities \cap Live
LevelGeometry == { e \in LevelEntities : world[e] \in {"geometry", "light"} }

C27_TeardownSparesCurrentLevel ==
  /\ [][SwitchHandled =>
          /\ level_state'.old_level_objects \subseteq Live
          /\ \A c \in commands' :
               (c.op = "spawn" /\ c.by = "level_switch") =>
                 c.e \notin level_state'.old_level_objects]_vars
  /\ [](\A e \in level_entities : DespawnCmd(e, "level_delete_old") \notin commands)
  /\ [](\A e \in Live : world[e] = "player" => e \notin level_state.old_level_objects)

\* A LevelSwitch and the Close after it have been handled and applied: the
\* old level is gone, the level the switch spawned and the player are alive.
C27_Witness ==
  /\ ~panicked
  /\ level_entities # {}
  /\ level_entities \subseteq Live
  /\ \A e \in level_entities : world[e] # "player"
  /\ \E e \in Live : world[e] = "player"
  /\ Live \ level_entities = { e \in Live : world[e] = "player" }
  /\ level_state.old_level_objects = {}
  /\ awaiting_close = {}

\* ------------------------------------------------------------------------
\* spawn_level: where a level and its doors land in the world
\* ------------------------------------------------------------------------
COLUMN_HIGHT == 10
MaxLevels == 3

\* A length of the program in halves of a world unit.
Twice(v) == 2 * v

\* Vec3::new(x, y, 0.0) along the side of the exit door, `length` long.
Towards(door_type, length) ==
  CASE door_type = "Top" -> <<0, length, 0>>
    [] door_type = "Bottom" -> <<0, 0 - length, 0>>
    [] door_type = "Left" -> <<0 - length, 0, 0>>
    [] door_type = "Right" -> <<length, 0, 0>>

\* Variant of NextTranslation that moves the level by one column only.
NextTranslation_ColumnStep(t, previus) ==
  IF previus.kind = "Door"
  THEN Add(t, Towards(previus.door_type, Twice(COLUMN_SIZE)))
  ELSE t

\* let level_translation = match previus_door { .. }: the value spawn_level
\* places the level at and returns
NextTranslation(t, previus) ==
  IF previus.kind = "Door"
  THEN Add(t, Towards(previus.door_type, Twice(LEVEL_SIZE)))
  ELSE t

\* Vec3::new(x_pos, y_pos, z_pos) of the cell grid[y][x]
CellTranslation(y, x) ==
  <<Twice(COLUMN_SIZE) * x + COLUMN_SIZE - LEVEL_SIZE,
    LEVEL_SIZE - Twice(COLUMN_SIZE) * y - COLUMN_SIZE,
    COLUMN_HIGHT>>

\* The spawn_door calls of spawn_level for the grid g placed at t: one for
\* every Door cell, with Transform::from_translation(translation + t).
SpawnedDoors(g, t) ==
  { [door |-> g[c[1]][c[2]], transform |-> Add(CellTranslation(c[1], c[2]), t)] :
      c \in { d \in Idx \X Idx : g[d[1]][d[2]].kind = "Door" } }

\* The door draws enumerated here: the four doors draw the same position, at
\* both ends and in the middle of the range.
SpawnDraws == DoorDraws \cup {GRID_SIZE \div 2}

\* spawn_initial_level -> spawn_level(.., level_state.translation, None,
\* true).  Strips, weapons and hostiles stay off the border, so the doors of
\* the grid are those generate_level stamped, less the ones the tutorial
\* walls replace.
spawn_first_level ==
  /\ levels_spawned = 0
  /\ \E p \in SpawnDraws :
       /\ grid' = TutorialLevel(StampDoors(NoDoor, p, p, p, p))
       /\ level_doors' = SpawnedDoors(grid', NextTranslation(level_translation, NoDoor))
  /\ pc' = "spawned"
  /\ levels_spawned' = 1
  /\ UNCHANGED <<level_translation, previous_translation, exit_door, exit_transform>>
  /\ UNCHANGED <<grid_size, previus_door, strip, placed, trapped_removed>>
  /\ UNCHANGED <<pvars, mvars, uvars, wvars>>

\* level_switch, for one LevelSwitch event whose exit door is a door of the
\* current level: spawn_level(.., level_state.translation,
\* Some(event.exit_door), false) and level_state.translation = new_translation.
switch_to_next_level ==
  /\ levels_spawned \in 1..(MaxLevels - 1)
  /\ \E d \in level_doors, p \in SpawnDraws :
       /\ exit_door' = ExitDoor(d.door)
       /\ exit_transform' = d.transform
       /\ previus_door' = exit_door'
       /\ grid' = StampDoors(exit_door', p, p, p, p)
       /\ level_translation' = NextTranslation(level_translation, exit_door')
       /\ level_doors' = SpawnedDoors(grid', level_translation')
  /\ previous_translation' = level_translation
  /\ pc' = "spawned"
  /\ levels_spawned' = levels_spawned + 1
  /\ UNCHANGED <<grid_size, strip, placed, trapped_removed>>
  /\ UNCHANGED <<pvars, mvars, uvars, wvars>>

InitSpawn ==
  /\ grid_size = GridConfigured
  /\ grid = EmptyGrid
  /\ pc = "start"
  /\ previus_door = NoDoor
  /\ strip = 0
  /\ placed = 0
  /\ trapped_removed = 0
  /\ ProgInit
  /\ MoveIdle
  /\ ExtraIdle

NextSpawn ==
  \/ spawn_first_level
  \/ switch_to_next_level

SpecSpawn == InitSpawn /\ [][NextSpawn]_vars

\* The floor of a level placed at t, Collider::cuboid(LEVEL_SIZE / 2.0,
\* LEVEL_SIZE / 2.0, 0.5) at Transform::from_translation(t): its extent in
\* x and in y.
Footprint(t) ==
  [x_min |-> t[1] - LEVEL_SIZE, x_max |-> t[1] + LEVEL_SIZE,
   y_min |-> t[2] - LEVEL_SIZE, y_max |-> t[2] + LEVEL_SIZE]

\* Two footprints overlap when they share more than an edge.
Overlap(a, b) ==
  /\ a.x_min < b.x_max /\ b.x_min < a.x_max
  /\ a.y_min < b.y_max /\ b.y_min < a.y_max

\* C21: spawn_level called with an exit door returns the previous offset
\* moved by one LEVEL_SIZE towards the door's side (Top +Y, Bottom -Y, Left
\* -X, Right +X), without one it returns the offset unchanged; level_switch
\* stores the value as LevelState.translation; the footprints of two
\* consecutive levels do not overlap.
C21_TranslationStepsByLevelSize ==
  /\ [][/\ levels_spawned = 0 => level_translation' = level_translation
        /\ levels_spawned > 0 =>
             /\ exit_door'.door_type = "Top" =>
                  level_translation' = <<level_translation[1],
                                         level_translation[2] + Twice(LEVEL_SIZE),
                                         level_translation[3]>>
             /\ exit_door'.door_type = "Bottom" =>
                  level_translation' = <<level_translation[1],
                                         level_translation[2] - Twice(LEVEL_SIZE),
                                         level_translation[3]>>
             /\ exit_door'.door_type = "Left" =>
                  level_translation' = <<level_translation[1] - Twice(LEVEL_SIZE),
                                         level_translation[2],
                                         level_translation[3]>>
             /\ exit_door'.door_type = "Right" =>
                  level_translation' = <<level_translation[1] + Twice(LEVEL_SIZE),
                                         level_translation[2],
                                         level_translation[3]>>
             /\ exit_door'.door_type \in DoorType]_vars
  /\ [](levels_spawned > 1 =>
          ~Overlap(Footprint(previous_translation), Footprint(level_translation)))

\* Two levels have been left, through doors on different sides.
C21_Witness ==
  /\ levels_spawned = MaxLevels
  /\ exit_door.door_type = "Left"
  /\ level_translation[2] # 0
  /\ ~Overlap(Footprint(previous_translation), Footprint(level_translation))

\* The entry door of the current level: the door generate_level opened
\* because the exit door mirrors onto its side.
EntryDoors == { d \in level_doors : d.door.door_state = "TemporaryOpen" }

\* C28: the entry door of a level entered through an exit door on side s at
\* position p is on the opposite side at position p, has the exit door's
\* coordinate along the wall and lies exactly COLUMN_SIZE beyond the exit
\* door towards s.
C28_DoorsAlignInWorld ==
  levels_spawned > 1 =>
    /\ Cardinality(EntryDoors) = 1
    /\ \A entry \in EntryDoors :
         /\ exit_door.door_type = Mirror(entry.door.door_type)
         /\ entry.door.grid_pos = exit_door.grid_pos
         /\ entry.transform =
              Add(exit_transform, Towards(exit_door.door_type, Twice(COLUMN_SIZE)))

\* A level entered through a Right door that was not at an end of the range.
C28_Witness ==
  /\ levels_spawned > 1
  /\ exit_door.door_type = "Right"
  /\ exit_door.grid_pos = GRID_SIZE \div 2
  /\ \E entry \in EntryDoors :
       /\ entry.door.door_type = "Left"
       /\ entry.transform[1] = exit_transform[1] + Twice(COLUMN_SIZE)
       /\ entry.transform[2] = exit_transform[2]

\* ------------------------------------------------------------------------
\* player_update
\* ------------------------------------------------------------------------
acceleration == 50
slow_down_rade == 5
max_movement_speed_squared == 40
MaxUpdates == 2

\* time.delta() is counted in 1/TicksPerSecond of a second.
TicksPerSecond == 200

\* The frame deltas enumerated: 5 ms, 15 ms and 20 ms (a game running
\* smoothly), 130 ms, 200 ms and 300 ms (a frame that took long).
FrameDeltas == {1, 3, 4, 26, 40, 60}

\* camera_transform.forward(), times NormalScale: level, oblique, looking
\* up, looking straight down.
Forwards == {<<0, 5, 0>>, <<5, 0, 0>>, <<3, 4, 0>>, <<-4, 3, 0>>, <<0, 3, 4>>, <<0, 0, -5>>}

Keys == {"W", "S", "A", "D"}

Neg(a) == Scale(a, -1)

Abs(n) == IF n < 0 THEN 0 - n ELSE n

\* A length num / den in lowest terms.
RECURSIVE GCD(_, _)
GCD(a, b) == IF b = 0 THEN a ELSE GCD(b, a % b)

Length(dir, num, den) ==
  [dir |-> dir, num |-> num \div GCD(num, den), den |-> den \div GCD(num, den)]

\* let mut movement = Vec3::ZERO; if keys.pressed(..) { movement += .. };
\* movement.z = 0.0
Movement(forward, pressed) ==
  LET right == Shrink(Cross(forward, Scale(Z, NormalScale)), NormalScale)
      w == IF "W" \in pressed THEN forward ELSE ZERO
      s == IF "S" \in pressed THEN Neg(forward) ELSE ZERO
      a == IF "A" \in pressed THEN Neg(right) ELSE ZERO
      d == IF "D" \in pressed THEN right ELSE ZERO
      sum == Add(Add(w, s), Add(a, d))
  IN <<sum[1], sum[2], 0>>

\* slow down: velocity.velocity -= velocity_copy * player.slow_down_rade *
\* time.delta_seconds()
SlowDown(v, dt) ==
  LET factor == TicksPerSecond - slow_down_rade * dt
  IN IF factor = 0 \/ v.num = 0
     THEN [dir |-> ZERO, num |-> 0, den |-> 1]
     ELSE Length(IF factor < 0 THEN Neg(v.dir) ELSE v.dir,
                 v.num * Abs(factor), v.den * TicksPerSecond)

\* let velocity_length = velocity.velocity.length_squared()
\*     .max(player.max_movement_speed_squared), in 1/TicksPerSecond^2:
\* velocity.velocity is movement.normalize() * acceleration * delta_seconds,
\* whose length is acceleration * delta_seconds
velocity_length(dt) ==
  LET length_squared == (acceleration * dt) * (acceleration * dt)
      limit == max_movement_speed_squared * TicksPerSecond * TicksPerSecond
  IN IF length_squared >= limit THEN length_squared ELSE limit

\* velocity.velocity = velocity.velocity.normalize() * velocity_length
Accelerated(m, dt) ==
  Length(m, velocity_length(dt), TicksPerSecond * TicksPerSecond)

\* player_update, one call (the player and the camera exist).
player_update ==
  /\ updates < MaxUpdates
  /\ \E dt \in FrameDeltas, forward \in Forwards, pressed \in SUBSET Keys :
       LET m == Movement(forward, pressed)
       IN /\ frame_delta' = dt
          /\ IF m = ZERO
             THEN /\ player_velocity' = SlowDown(player_velocity, dt)
                  /\ was_input' = FALSE
             ELSE /\ player_velocity' = Accelerated(m, dt)
                  /\ was_input' = TRUE
  /\ updates' = updates + 1
  /\ UNCHANGED <<gvars, pvars, mvars, svars, wvars>>

InitUpdate == GenIdle /\ ProgInit /\ MoveIdle /\ ExtraIdle

NextUpdate == player_update

SpecUpdate == InitUpdate /\ [][NextUpdate]_vars

\* C25: after player_update has run with movement input, the length of the
\* player's velocity does not exceed the maximum movement speed, whose
\* square is max_movement_speed_squared, whatever the frame delta.
C25_SpeedClamped ==
  was_input =>
    player_velocity.num * player_velocity.num
      <= max_movement_speed_squared * player_velocity.den * player_velocity.den

\* The same with the configured number read as the speed itself.
SpeedAtMostConfiguredNumber ==
  was_input => player_velocity.num <= max_movement_speed_squared * player_velocity.den

\* In a frame of ordinary length the speed is the configured number, not its
\* square root.
SpeedIsConfiguredNumberInShortFrames ==
  was_input /\ acceleration * acceleration * frame_delta * frame_delta
                 <= max_movement_speed_squared * TicksPerSecond * TicksPerSecond
    => player_velocity.num = max_movement_speed_squared * player_velocity.den

\* ------------------------------------------------------------------------
\* The player's weapon
\* ------------------------------------------------------------------------
WeaponSystems ==
  {"player_shoot", "player_pick_up_weapon", "player_throw_weapon", "update_attack_timers"}

\* Query<.., With<PlayerWeapon>>
PlayerWeapons == { w \in WeaponEntities : weapons[w].player_weapon }

\* CollisionEvents: the player's collider against the sensor of the
\* FloatingObject of weapon w; a contact that is not a sensor contact (or
\* whose collider was removed); a contact that does not involve the player.
PickupEvent(w) == [kind |-> "pickup", weapon |-> w]
ContactEvent == [kind |-> "contact", weapon |-> 0]
ForeignEvent == [kind |-> "foreign", weapon |-> 0]
CollisionEvents == { PickupEvent(w) : w \in WeaponEntities } \cup {ContactEvent, ForeignEvent}

\* The physics step of the frame before sends collision events; they are
\* there for the systems of this tick to read.
SendPickupCollision ==
  /\ weapon_ran = {}
  /\ Len(pickup_events) < MaxCollisions
  /\ \E e \in CollisionEvents : pickup_events' = Append(pickup_events, e)
  /\ UNCHANGED <<weapons, weapon_commands, weapon_ran, shots, finished_seen>>
  /\ UNCHANGED <<gvars, pvars, mvars, svars, uvars>>

\* for collision_event in collision_events.read() { .. }: the commands the
\* loop queues.  A contact that is not a sensor contact returns; an event
\* without the player or without a live FloatingObject is skipped; every
\* other event despawns its floating object and inserts PlayerWeapon on the
\* object's first child.
RECURSIVE PickedUp(_)
PickedUp(events) ==
  IF events = << >> THEN << >>
  ELSE LET e == Head(events)
       IN CASE e.kind = "contact" -> << >>
            [] e.kind = "pickup" /\ weapons[e.weapon].floating ->
                 <<[op |-> "despawn_floating_object", weapon |-> e.weapon],
                   [op |-> "insert_player_weapon", weapon |-> e.weapon]>>
                 \o PickedUp(Tail(events))
            [] OTHER -> PickedUp(Tail(events))

\* player_pick_up_weapon (the player and the camera exist)
player_pick_up_weapon ==
  /\ "player_pick_up_weapon" \notin weapon_ran
  /\ weapon_ran' = weapon_ran \cup {"player_pick_up_weapon"}
  /\ IF Cardinality(PlayerWeapons) = 1
     THEN UNCHANGED weapon_commands
     ELSE weapon_commands' = weapon_commands \o PickedUp(pickup_events)
  /\ UNCHANGED <<weapons, pickup_events, shots, finished_seen>>
  /\ UNCHANGED <<gvars, pvars, mvars, svars, uvars>>

\* player_throw_weapon (the camera exists); just_pressed: keys.just_pressed(KeyCode::F)
player_throw_weapon ==
  /\ "player_throw_weapon" \notin weapon_ran
  /\ weapon_ran' = weapon_ran \cup {"player_throw_weapon"}
  /\ \E just_pressed \in BOOLEAN :
       IF Cardinality(PlayerWeapons) = 1 /\ just_pressed
       THEN weapon_commands' =
              Append(weapon_commands,
                     [op |-> "throw", weapon |-> CHOOSE w \in PlayerWeapons : TRUE])
       ELSE UNCHANGED weapon_commands
  /\ UNCHANGED <<weapons, pickup_events, shots, finished_seen>>
  /\ UNCHANGED <<gvars, pvars, mvars, svars, uvars>>

\* Variant of Fired that leaves the timer ready.
Fired_StaysReady(weapon) ==
  [weapon EXCEPT !.elapsed = 0, !.ammo = @ - 1]

\* attack_timer.reset(); ready = false; ammo.ammo -= 1
Fired(weapon) ==
  [weapon EXCEPT !.elapsed = 0, !.ready = FALSE, !.ammo = @ - 1]

\* player_shoot (the camera exists); pressed: keys.pressed(KeyCode::Space)
player_shoot ==
  /\ "player_shoot" \notin weapon_ran
  /\ weapon_ran' = weapon_ran \cup {"player_shoot"}
  /\ \E pressed \in BOOLEAN :
       IF Cardinality(PlayerWeapons) = 1
       THEN LET w == CHOOSE held \in PlayerWeapons : TRUE
            IN IF pressed /\ weapons[w].ready /\ weapons[w].ammo # 0
               THEN /\ weapons' = [weapons EXCEPT ![w] = Fired(weapons[w])]
                    /\ shots' = [shots EXCEPT ![w] = @ + 1]
                    /\ finished_seen' = [finished_seen EXCEPT ![w] = FALSE]
               ELSE UNCHANGED <<weapons, shots, finished_seen>>
       ELSE UNCHANGED <<weapons, shots, finished_seen>>
  /\ UNCHANGED <<pickup_events, weapon_commands>>
  /\ UNCHANGED <<gvars, pvars, mvars, svars, uvars>>

\* Timer::tick of a repeating timer: finished() after the tick
Finished(weapon, delta) == weapon.elapsed + delta >= AttackPeriod

\* if !timer.ready { tick; if finished() { ready = true } }
Ticked(weapon, delta) ==
  IF weapon.ready THEN weapon
  ELSE [weapon EXCEPT !.elapsed = (@ + delta) % AttackPeriod,
                      !.ready = Finished(weapon, delta)]

\* update_attack_timers; delta: time.delta(), up to a whole period
update_attack_timers ==
  /\ "update_attack_timers" \notin weapon_ran
  /\ weapon_ran' = weapon_ran \cup {"update_attack_timers"}
  /\ \E delta \in 0..AttackPeriod :
       /\ weapons' = [w \in WeaponEntities |-> Ticked(weapons[w], delta)]
       /\ finished_seen' =
            [w \in WeaponEntities |->
               finished_seen[w] \/ (~weapons[w].ready /\ Finished(weapons[w], delta))]
  /\ UNCHANGED <<pickup_events, weapon_commands, shots>>
  /\ UNCHANGED <<gvars, pvars, mvars, svars, uvars>>

\* One queued command applied to the weapon entities.
Applied(ws, c) ==
  CASE c.op = "despawn_floating_object" -> [ws EXCEPT ![c.weapon].floating = FALSE]
    [] c.op = "insert_player_weapon" -> [ws EXCEPT ![c.weapon].player_weapon = TRUE]
    [] c.op = "throw" -> [ws EXCEPT ![c.weapon].player_weapon = FALSE,
                                    ![c.weapon].thrown = TRUE]

RECURSIVE AppliedAll(_, _)
AppliedAll(ws, cs) ==
  IF cs = << >> THEN ws ELSE AppliedAll(Applied(ws, Head(cs)), Tail(cs))

\* The end of the tick: the queued commands are applied in order and the
\* collision events of the tick are gone.
EndWeaponTick ==
  /\ weapon_ran = WeaponSystems
  /\ weapons' = AppliedAll(weapons, weapon_commands)
  /\ weapon_commands' = << >>
  /\ pickup_events' = << >>
  /\ weapon_ran' = {}
  /\ UNCHANGED <<shots, finished_seen>>
  /\ UNCHANGED <<gvars, pvars, mvars, svars, uvars>>

InitWeapon == GenIdle /\ ProgInit /\ MoveIdle /\ ExtraIdle

NextWeapon ==
  \/ SendPickupCollision
  \/ player_pick_up_weapon
  \/ player_throw_weapon
  \/ player_shoot
  \/ update_attack_timers
  \/ EndWeaponTick

SpecWeapon == InitWeapon /\ [][NextWeapon]_vars

\* C29: at most one entity carries PlayerWeapon, also when two pickup
\* events with different floating objects are read in the same tick.
C29_AtMostOnePlayerWeapon == Cardinality(PlayerWeapons) <= 1

\* With no more than one pickup event per tick the player holds one weapon
\* at most.
OnePickupPerTickOneWeapon ==
  [][Cardinality(PlayerWeapons) <= 1 /\ weapon_commands' = << >>
       /\ Cardinality({ k \in 1..Len(weapon_commands) :
                          weapon_commands[k].op = "insert_player_weapon" }) <= 1
     => Cardinality(PlayerWeapons') <= 1]_vars

\* C30: player_shoot sends a ShootEvent for a weapon only when the weapon is
\* the held one, its timer is ready and its ammo is not zero; the event
\* takes one round and clears ready; ammo never underflows and the
\* ShootEvents of a weapon never outnumber its initial ammo; between two
\* ShootEvents of a weapon update_attack_timers has seen its timer finished;
\* a weapon is not ready before its timer has finished once.
C30_ShootNeedsReadyAndAmmo ==
  /\ [][\A w \in WeaponEntities :
          shots'[w] # shots[w] =>
            /\ shots'[w] = shots[w] + 1
            /\ PlayerWeapons = {w}
            /\ weapons[w].ready
            /\ weapons[w].ammo # 0
            /\ weapons'[w].ammo = weapons[w].ammo - 1
            /\ ~weapons'[w].ready
            /\ finished_seen[w]]_vars
  /\ [](\A w \in WeaponEntities :
          /\ weapons[w].ammo \in 0..PISTOL_AMMO
          /\ shots[w] + weapons[w].ammo = PISTOL_AMMO
          /\ shots[w] <= PISTOL_AMMO
          /\ shots[w] = 0 /\ ~finished_seen[w] => ~weapons[w].ready)

\* A weapon has been shot empty and has become ready again.
C30_Witness ==
  \E w \in WeaponEntities :
    /\ shots[w] = PISTOL_AMMO
    /\ weapons[w].ammo = 0
    /\ weapons[w].ready
    /\ PlayerWeapons = {w}
====
